---- MODULE Spec2Model ----
(***************************************************************************)
(* A model of malariagen_data.ag3.Ag3: release discovery, the per-instance *)
(* caches of opened stores and parsed tables, the resolution of the        *)
(* sample_sets argument, and the composition of metadata tables and of     *)
(* genotype / site arrays.                                                 *)
(*                                                                         *)
(* Every method is an operator that takes the instance (ag3), the ghost    *)
(* log of physical opens (io), the storage (fs), the set of paths that     *)
(* fail during the call (bad) and the method's arguments, and returns a    *)
(* record [ag3, io, out, val, order]: the instance and the log after the   *)
(* call, "ok" or the exception raised, the value returned, and the         *)
(* sequence of single sample sets the call visited.                        *)
(***************************************************************************)
EXTENDS Integers, Sequences, FiniteSets, TLC

VARIABLES fs, ag3, io, ret, ncalls

vars == <<fs, ag3, io, ret, ncalls>>

-----------------------------------------------------------------------------
(* Bounds *)

\* longest directory listing of the root given to the constructor
MaxListing == 3
\* longest list given as a sample_sets argument
MaxArgLen == 2
\* public calls made on one instance in the composition specifications
MaxCalls == 1
\* length of the reference sequence of contig "3R"
GenomeLen == 4
\* the ghost count of physical opens per key saturates here
MaxOpens == 3

\* the callers that share one instance
NumThreads == 2

-----------------------------------------------------------------------------
(* Names *)

NONE == "None"
\* Python's None where an object with an identity may stand
NoneObj == [id |-> <<>>]
NaN == "nan"

public_releases == <<"v3">>

Range(s) == {s[i] : i \in 1..Len(s)}

\* the suffixes of the names of the model after "v3"
V3Suffixes == {"", ".1", ".9", "_wild"}

\* str.startswith("v3") over the names of the model
StartsWithV3(s) == \E r \in V3Suffixes : s = "v3" \o r

RootPath == "vo_agam_release"
RootNames == {"v3", "v3.1", "v2", "reference"}

RECURSIVE SeqsUpTo(_, _)
\* the sequences over S of length at most n
SeqsUpTo(S, n) ==
    IF n = 0 THEN {<<>>}
    ELSE LET shorter == SeqsUpTo(S, n - 1)
         IN  shorter \cup {Append(s, x) : s \in shorter, x \in S}

NoRep(s) == \A i, j \in 1..Len(s) : i # j => s[i] # s[j]

\* what fs.ls(root) can return: full paths of distinct children, in any order
Listings ==
    {[i \in 1..Len(s) |-> <<RootPath, s[i]>>] :
        s \in {t \in SeqsUpTo(RootNames, MaxListing) : NoRep(t)}}

-----------------------------------------------------------------------------
(* The storage: what is on disk under the root *)

\* the release directories that hold a manifest
ReleaseDirs == {"v3", "v3.1"}

\* the sample sets that have data on disk
SampleSetsOnDisk == {"SS1", "SS2", "AG1000G-X", "SS3"}

Contigs == {"3R"}
Masks == {"gamb_colu", "arab"}
SiteAnalyses == {"dt_20200416"}
SpeciesAnalyses == {"20200422"}
SpeciesMethods == {"aim"}
SiteFields == {"POS", "REF", "ALT"}
CallFields == {"GT"}

\* samples.meta.csv of each sample set: its sample ids, in file order
SamplesOf(ss) ==
    CASE ss = "SS1" -> <<"a1", "a2">>
      [] ss = "SS2" -> <<"b1">>
      [] ss = "AG1000G-X" -> <<"x1">>
      [] ss = "SS3" -> <<"c1">>
      [] OTHER -> <<>>

\* the species-calls file of each sample set, when the storage does not vary it
DefaultSpecies(ss) ==
    CASE ss = "SS1" ->
           << [sample_id |-> "a1", species_gambcolu_arabiensis |-> "gamb_colu",
               species_gambiae_coluzzii |-> "coluzzii"],
              [sample_id |-> "a2", species_gambcolu_arabiensis |-> "arabiensis",
               species_gambiae_coluzzii |-> NaN] >>
      [] ss = "SS2" ->
           << [sample_id |-> "b1", species_gambcolu_arabiensis |-> "gamb_colu",
               species_gambiae_coluzzii |-> "gambiae"] >>
      [] ss = "AG1000G-X" ->
           << [sample_id |-> "x1", species_gambcolu_arabiensis |-> NaN,
               species_gambiae_coluzzii |-> NaN] >>
      [] OTHER ->
           << [sample_id |-> "c1", species_gambcolu_arabiensis |-> "intermediate",
               species_gambiae_coluzzii |-> "gambiae"] >>

DefaultFs ==
    [manifest |-> [r \in ReleaseDirs |->
                     IF r = "v3" THEN <<"SS2", "AG1000G-X", "SS1">> ELSE <<"SS3">>],
     species |-> [ss \in SampleSetsOnDisk |-> DefaultSpecies(ss)],
     pos |-> [c \in Contigs |-> <<2, 3>>],
     filter_pass |-> [m \in Masks |-> [c \in Contigs |->
                        IF m = "arab" THEN <<TRUE, TRUE>> ELSE <<FALSE, TRUE>>]]]

\* the paths the methods build, as tuples of their components
ManifestPath(release) == <<RootPath, release, "manifest.tsv">>
GeneralPath(release, sample_set) ==
    <<RootPath, release, "metadata/general", sample_set, "samples.meta.csv">>
SpeciesPath(release, sample_set, analysis, method) ==
    <<RootPath, release, "metadata/species_calls", analysis, sample_set, method>>
SiteFiltersPath(mask, analysis) == <<RootPath, "v3", "_open_site_filters", analysis, mask>>
SnpSitesPath == <<RootPath, "v3", "snp_genotypes/all/sites">>
SnpGenotypesPath(release, sample_set) ==
    <<RootPath, release, "snp_genotypes/all", sample_set>>
GenomePath == <<RootPath, "reference/genome/agamp4">>

\* the files and array hierarchies that exist under the root
Exists(f, path) ==
    \/ \E r \in ReleaseDirs : path = ManifestPath(r)
    \/ \E r \in ReleaseDirs : \E ss \in Range(f.manifest[r]) :
          \/ path = GeneralPath(r, ss)
          \/ path = SnpGenotypesPath(r, ss)
          \/ \E a \in SpeciesAnalyses, m \in SpeciesMethods :
                path = SpeciesPath(r, ss, a, m)
    \/ \E m \in Masks, a \in SiteAnalyses : path = SiteFiltersPath(m, a)
    \/ path = SnpSitesPath
    \/ path = GenomePath

\* fs.open / zarr.open_consolidated succeeds on a path
CanOpen(f, bad, path) == Exists(f, path) /\ path \notin bad

-----------------------------------------------------------------------------
(* Results of a method call, and the ghost log of physical opens *)

Ok(a, i, v, o, t) ==
    [ag3 |-> a, io |-> i, out |-> "ok", val |-> v, order |-> o, tried |-> t]

Raise(a, i, e, t) ==
    [ag3 |-> a, io |-> i, out |-> e, val |-> NONE, order |-> <<>>, tried |-> t]

\* how many times the resource (kind, key) has been opened successfully
Opens(i, k) == IF k \in DOMAIN i THEN i[k] ELSE 0

Min(x, y) == IF x < y THEN x ELSE y

LogOpen(i, k) ==
    [x \in DOMAIN i \cup {k} |-> IF x = k THEN Min(Opens(i, k) + 1, MaxOpens) ELSE i[x]]

\* the identity of the object the n-th open of (kind, key) creates
NewId(i, k) == <<k[1], k[2], Min(Opens(i, k) + 1, MaxOpens)>>

\* d[k] = v on a Python dict
DictSet(d, k, v) == [x \in DOMAIN d \cup {k} |-> IF x = k THEN v ELSE d[x]]

-----------------------------------------------------------------------------
(* Ag3.__init__ *)

NoInstance ==
    [state |-> "none", pre |-> FALSE, releases |-> <<>>,
     cache_sample_sets |-> <<>>, cache_general_metadata |-> <<>>,
     cache_species_calls |-> <<>>, cache_site_filters |-> <<>>,
     cache_snp_sites |-> NoneObj, cache_snp_genotypes |-> <<>>,
     cache_genome |-> NoneObj]

InList(x, s) == \E j \in 1..Len(s) : s[j] = x

IsPrefixed(d) == StartsWithV3(d)
IsPublic(d) == InList(d, public_releases)

\* __init__ without the restriction to the public releases
DiscoverAnyRelease(listing, pre) ==
    LET sub_dirs == [j \in 1..Len(listing) |-> listing[j][Len(listing[j])]]
    IN  SelectSeq(sub_dirs, IsPrefixed)

\* releases as __init__ computes them from the listing
DiscoverReleases(listing, pre) ==
    LET sub_dirs == [j \in 1..Len(listing) |-> listing[j][Len(listing[j])]]
        releases == SelectSeq(sub_dirs, IsPrefixed)
    IN  IF ~pre THEN SelectSeq(releases, IsPublic) ELSE releases

Ag3_init(listing, pre) ==
    LET releases == DiscoverReleases(listing, pre)
    IN  IF Len(releases) = 0
        THEN [NoInstance EXCEPT !.state = "failed", !.pre = pre]
        ELSE [NoInstance EXCEPT !.state = "ready", !.pre = pre,
                                !.releases = releases]

-----------------------------------------------------------------------------
(* The cached open and read operations *)

\* the manifest table of a release, as read_csv and the release column give it
ManifestTable(f, release) ==
    [j \in 1..Len(f.manifest[release]) |->
        [sample_set |-> f.manifest[release][j], release |-> release]]

\* a cache that never answers
CacheNeverHit(d, k) == FALSE

\* release.startswith("v3") in place of the membership test
ReleaseNotPrefixed(a, release) == ~StartsWithV3(release)

\* release not in self._releases
ReleaseUnavailable(a, release) == ~InList(release, a.releases)

\* the entry of a dict cache, or the miss
CacheHit(d, k) == k \in DOMAIN d

\* the except branch of sample_sets: read the manifest, store it, return it
ReadManifest(a, i, f, bad, release, k, df) ==
    IF ~CanOpen(f, bad, ManifestPath(release))
    THEN Raise(a, i, "IOError", {ManifestPath(release)})
    ELSE Ok([a EXCEPT !.cache_sample_sets = DictSet(@, release, df)],
            LogOpen(i, k), df, <<>>, {ManifestPath(release)})

sample_sets(a, i, f, bad, release) ==
    IF ReleaseUnavailable(a, release)
    THEN Raise(a, i, "ValueError: Release not available", {})
    ELSE IF CacheHit(a.cache_sample_sets, release)
    THEN Ok(a, i, a.cache_sample_sets[release], <<>>, {})
    ELSE ReadManifest(a, i, f, bad, release, <<"sample_sets", release>>,
                      [id |-> NewId(i, <<"sample_sets", release>>),
                       rows |-> ManifestTable(f, release)])

\* df["sample_set"].tolist()
SampleSetColumn(df) == [j \in 1..Len(df.rows) |-> df.rows[j].sample_set]

RECURSIVE LookupFrom(_, _, _, _, _, _, _)
RECURSIVE LookupStep(_, _, _, _, _, _, _)

\* the body of the loop of _lookup_release, r being the manifest of the n-th
\* release; t are the paths tried so far
LookupStep(r, releases, f, bad, sample_set, n, t) ==
    IF r.out # "ok" THEN [r EXCEPT !.tried = t \cup r.tried]
    ELSE IF InList(sample_set, SampleSetColumn(r.val))
    THEN Ok(r.ag3, r.io, releases[n], <<>>, t \cup r.tried)
    ELSE LookupFrom(r.ag3, r.io, f, bad, sample_set, n + 1, t \cup r.tried)

\* the loop of _lookup_release from the n-th release on
LookupFrom(a, i, f, bad, sample_set, n, t) ==
    IF n > Len(a.releases)
    THEN Raise(a, i, "ValueError: No release found", t)
    ELSE LookupStep(sample_sets(a, i, f, bad, a.releases[n]), a.releases, f, bad,
                    sample_set, n, t)

lookup_release(a, i, f, bad, sample_set) ==
    LookupFrom(a, i, f, bad, sample_set, 1, {})

\* samples.meta.csv with the sample_set and release columns added
GeneralTable(sample_set, release) ==
    [index |-> [j \in 1..Len(SamplesOf(sample_set)) |-> j - 1],
     rows |-> [j \in 1..Len(SamplesOf(sample_set)) |->
                 [sample_id |-> SamplesOf(sample_set)[j],
                  sample_set |-> sample_set, release |-> release]]]

\* the except branch of _read_general_metadata after the lookup l
ReadGeneral(l, f, bad, sample_set, k) ==
    IF l.out # "ok" THEN l
    ELSE IF ~CanOpen(f, bad, GeneralPath(l.val, sample_set))
    THEN Raise(l.ag3, l.io, "IOError", l.tried \cup {GeneralPath(l.val, sample_set)})
    ELSE Ok([l.ag3 EXCEPT !.cache_general_metadata =
                DictSet(@, sample_set,
                        [id |-> NewId(l.io, k)] @@ GeneralTable(sample_set, l.val))],
            LogOpen(l.io, k),
            [id |-> NewId(l.io, k)] @@ GeneralTable(sample_set, l.val),
            <<>>, l.tried \cup {GeneralPath(l.val, sample_set)})

read_general_metadata(a, i, f, bad, sample_set) ==
    IF CacheHit(a.cache_general_metadata, sample_set)
    THEN Ok(a, i, a.cache_general_metadata[sample_set], <<>>, {})
    ELSE ReadGeneral(lookup_release(a, i, f, bad, sample_set), f, bad, sample_set,
                     <<"_read_general_metadata", sample_set>>)

\* df.loc[loc, "species"] = v
AssignLoc(col, loc, v) == [j \in 1..Len(col) |-> IF loc[j] THEN v ELSE col[j]]

\* column.values == v, elementwise (a missing value equals no string)
ColEq(col, v) == [j \in 1..Len(col) |-> col[j] # NaN /\ col[j] = v]

\* loc1 & loc2
LocAnd(l1, l2) == [j \in 1..Len(l1) |-> l1[j] /\ l2[j]]

\* the five assignments of _read_species_calls, in turn, on the columns ga
\* (species_gambcolu_arabiensis) and gc (species_gambiae_coluzzii)
Assign1(s0, ga) == AssignLoc(s0, ColEq(ga, "arabiensis"), "arabiensis")
Assign2(s1, ga) ==
    AssignLoc(s1, ColEq(ga, "intermediate"), "intermediate_arabiensis_gambiae")
Assign3(s2, ga, gc) ==
    AssignLoc(s2, LocAnd(ColEq(ga, "gamb_colu"), ColEq(gc, "gambiae")), "gambiae")
Assign4(s3, ga, gc) ==
    AssignLoc(s3, LocAnd(ColEq(ga, "gamb_colu"), ColEq(gc, "coluzzii")), "coluzzii")
Assign5(s4, ga, gc) ==
    AssignLoc(s4, LocAnd(ColEq(ga, "gamb_colu"), ColEq(gc, "intermediate")),
              "intermediate_gambiae_coluzzii")

\* the species column with the test on species_gambcolu_arabiensis left out of
\* the last three assignments
SpeciesColumnSecondOnly(ga, gc) ==
    AssignLoc(
      AssignLoc(
        AssignLoc(Assign2(Assign1([j \in 1..Len(ga) |-> NaN], ga), ga),
                  ColEq(gc, "gambiae"), "gambiae"),
        ColEq(gc, "coluzzii"), "coluzzii"),
      ColEq(gc, "intermediate"), "intermediate_gambiae_coluzzii")

\* the species column after the five assignments, each over the one before
SpeciesColumn(ga, gc) ==
    Assign5(Assign4(Assign3(Assign2(Assign1([j \in 1..Len(ga) |-> NaN], ga), ga),
                            ga, gc), ga, gc), ga, gc)

\* the species column _read_species_calls adds to the rows of the file
DeriveSpecies(rows) ==
    SpeciesColumn([j \in 1..Len(rows) |-> rows[j].species_gambcolu_arabiensis],
                  [j \in 1..Len(rows) |-> rows[j].species_gambiae_coluzzii])

\* the species-calls file with the species column added
SpeciesTable(f, sample_set) ==
    [index |-> [j \in 1..Len(f.species[sample_set]) |-> j - 1],
     rows |-> [j \in 1..Len(f.species[sample_set]) |->
                 [sample_id |-> f.species[sample_set][j].sample_id,
                  species_gambcolu_arabiensis |->
                      f.species[sample_set][j].species_gambcolu_arabiensis,
                  species_gambiae_coluzzii |->
                      f.species[sample_set][j].species_gambiae_coluzzii,
                  species |-> DeriveSpecies(f.species[sample_set])[j]]]]

\* the except branch of _read_species_calls after the lookup l
ReadSpecies(l, f, bad, sample_set, analysis, method, k) ==
    IF l.out # "ok" THEN l
    ELSE IF ~CanOpen(f, bad, SpeciesPath(l.val, sample_set, analysis, method))
    THEN Raise(l.ag3, l.io, "IOError",
               l.tried \cup {SpeciesPath(l.val, sample_set, analysis, method)})
    ELSE Ok([l.ag3 EXCEPT !.cache_species_calls =
                DictSet(@, <<sample_set, analysis, method>>,
                        [id |-> NewId(l.io, k)] @@ SpeciesTable(f, sample_set))],
            LogOpen(l.io, k),
            [id |-> NewId(l.io, k)] @@ SpeciesTable(f, sample_set),
            <<>>, l.tried \cup {SpeciesPath(l.val, sample_set, analysis, method)})

read_species_calls(a, i, f, bad, sample_set, analysis, method) ==
    IF CacheHit(a.cache_species_calls, <<sample_set, analysis, method>>)
    THEN Ok(a, i, a.cache_species_calls[<<sample_set, analysis, method>>], <<>>, {})
    ELSE ReadSpecies(lookup_release(a, i, f, bad, sample_set), f, bad, sample_set,
                     analysis, method,
                     <<"_read_species_calls", <<sample_set, analysis, method>>>>)

\* SafeStore(fs.get_mapper(path)) and zarr.open_consolidated: a handle on path
ZarrRoot(i, k, path) == [id |-> NewId(i, k), path |-> path]

\* _open_site_filters storing the handle before the open has succeeded
open_site_filters_early_store(a, i, f, bad, mask, analysis) ==
    IF CacheHit(a.cache_site_filters, <<mask, analysis>>)
    THEN Ok(a, i, a.cache_site_filters[<<mask, analysis>>], <<>>, {})
    ELSE IF ~CanOpen(f, bad, SiteFiltersPath(mask, analysis))
    THEN Raise([a EXCEPT !.cache_site_filters =
                   DictSet(@, <<mask, analysis>>,
                           ZarrRoot(i, <<"_open_site_filters", <<mask, analysis>>>>,
                                    SiteFiltersPath(mask, analysis)))],
               i, "IOError", {SiteFiltersPath(mask, analysis)})
    ELSE Ok([a EXCEPT !.cache_site_filters =
                DictSet(@, <<mask, analysis>>,
                        ZarrRoot(i, <<"_open_site_filters", <<mask, analysis>>>>,
                                 SiteFiltersPath(mask, analysis)))],
            LogOpen(i, <<"_open_site_filters", <<mask, analysis>>>>),
            ZarrRoot(i, <<"_open_site_filters", <<mask, analysis>>>>,
                     SiteFiltersPath(mask, analysis)),
            <<>>, {SiteFiltersPath(mask, analysis)})

open_site_filters(a, i, f, bad, mask, analysis) ==
    IF CacheHit(a.cache_site_filters, <<mask, analysis>>)
    THEN Ok(a, i, a.cache_site_filters[<<mask, analysis>>], <<>>, {})
    ELSE IF ~CanOpen(f, bad, SiteFiltersPath(mask, analysis))
    THEN Raise(a, i, "IOError", {SiteFiltersPath(mask, analysis)})
    ELSE Ok([a EXCEPT !.cache_site_filters =
                DictSet(@, <<mask, analysis>>,
                        ZarrRoot(i, <<"_open_site_filters", <<mask, analysis>>>>,
                                 SiteFiltersPath(mask, analysis)))],
            LogOpen(i, <<"_open_site_filters", <<mask, analysis>>>>),
            ZarrRoot(i, <<"_open_site_filters", <<mask, analysis>>>>,
                     SiteFiltersPath(mask, analysis)),
            <<>>, {SiteFiltersPath(mask, analysis)})

\* self._cache_x is None
IsNone(c) == c.id = <<>>

open_snp_sites(a, i, f, bad) ==
    IF IsNone(a.cache_snp_sites)
    THEN IF ~CanOpen(f, bad, SnpSitesPath)
         THEN Raise(a, i, "IOError", {SnpSitesPath})
         ELSE Ok([a EXCEPT !.cache_snp_sites =
                     ZarrRoot(i, <<"_open_snp_sites", NONE>>, SnpSitesPath)],
                 LogOpen(i, <<"_open_snp_sites", NONE>>),
                 ZarrRoot(i, <<"_open_snp_sites", NONE>>, SnpSitesPath),
                 <<>>, {SnpSitesPath})
    ELSE Ok(a, i, a.cache_snp_sites, <<>>, {})

\* the except branch of _open_snp_genotypes after the lookup l
OpenGenotypes(l, f, bad, sample_set, k) ==
    IF l.out # "ok" THEN l
    ELSE IF ~CanOpen(f, bad, SnpGenotypesPath(l.val, sample_set))
    THEN Raise(l.ag3, l.io, "IOError",
               l.tried \cup {SnpGenotypesPath(l.val, sample_set)})
    ELSE Ok([l.ag3 EXCEPT !.cache_snp_genotypes =
                DictSet(@, sample_set,
                        ZarrRoot(l.io, k, SnpGenotypesPath(l.val, sample_set)))],
            LogOpen(l.io, k),
            ZarrRoot(l.io, k, SnpGenotypesPath(l.val, sample_set)),
            <<>>, l.tried \cup {SnpGenotypesPath(l.val, sample_set)})

open_snp_genotypes(a, i, f, bad, sample_set) ==
    IF CacheHit(a.cache_snp_genotypes, sample_set)
    THEN Ok(a, i, a.cache_snp_genotypes[sample_set], <<>>, {})
    ELSE OpenGenotypes(lookup_release(a, i, f, bad, sample_set), f, bad, sample_set,
                       <<"_open_snp_genotypes", sample_set>>)

open_genome(a, i, f, bad) ==
    IF IsNone(a.cache_genome)
    THEN IF ~CanOpen(f, bad, GenomePath)
         THEN Raise(a, i, "IOError", {GenomePath})
         ELSE Ok([a EXCEPT !.cache_genome =
                     ZarrRoot(i, <<"_open_genome", NONE>>, GenomePath)],
                 LogOpen(i, <<"_open_genome", NONE>>),
                 ZarrRoot(i, <<"_open_genome", NONE>>, GenomePath),
                 <<>>, {GenomePath})
    ELSE Ok(a, i, a.cache_genome, <<>>, {})

-----------------------------------------------------------------------------
(* The sample_sets argument and its resolution *)

\* a Python value given as sample_sets: a str, a list of such values, or
\* a value of another type
Str(x) == [t |-> "str", v |-> x]
List(xs) == [t |-> "list", v |-> xs]
Other == [t |-> "int", v |-> 0]

IsStr(arg) == arg.t = "str"

\* a list of str, as tolist() gives it
StrList(names) == List([j \in 1..Len(names) |-> Str(names[j])])

NotCross(x) == x # "AG1000G-X"

\* the sample sets of the manifest r, but the crosses
WildList(r) ==
    IF r.out # "ok" THEN r
    ELSE [r EXCEPT !.val = StrList(SelectSeq(SampleSetColumn(r.val), NotCross))]

\* the property v3_wild
v3_wild(a, i, f, bad) == WildList(sample_sets(a, i, f, bad, "v3"))

\* self.sample_sets(release=sample_sets)["sample_set"].tolist()
ManifestList(r) ==
    IF r.out # "ok" THEN r
    ELSE [r EXCEPT !.val = StrList(SampleSetColumn(r.val))]

RECURSIVE DedupItems(_, _, _)
\* the items from the n-th on that are not among those kept so far
DedupItems(xs, n, kept) ==
    IF n > Len(xs) THEN kept
    ELSE IF \E j \in 1..Len(kept) : kept[j].t = xs[n].t /\ kept[j] = xs[n]
    THEN DedupItems(xs, n + 1, kept)
    ELSE DedupItems(xs, n + 1, Append(kept, xs[n]))

\* _prep_sample_sets_arg dropping the repeated elements of a list
prep_sample_sets_arg_dedup(a, i, f, bad, arg) ==
    IF IsStr(arg) /\ arg.v = "v3_wild"
    THEN v3_wild(a, i, f, bad)
    ELSE IF IsStr(arg) /\ StartsWithV3(arg.v)
    THEN ManifestList(sample_sets(a, i, f, bad, arg.v))
    ELSE IF arg.t \notin {"str", "list"}
    THEN Raise(a, i, "TypeError: Invalid sample_sets", {})
    ELSE IF arg.t = "list" THEN Ok(a, i, List(DedupItems(arg.v, 1, <<>>)), <<>>, {})
    ELSE Ok(a, i, arg, <<>>, {})

prep_sample_sets_arg(a, i, f, bad, arg) ==
    IF IsStr(arg) /\ arg.v = "v3_wild"
    THEN v3_wild(a, i, f, bad)
    ELSE IF IsStr(arg) /\ StartsWithV3(arg.v)
    THEN ManifestList(sample_sets(a, i, f, bad, arg.v))
    ELSE IF arg.t \notin {"str", "list"}
    THEN Raise(a, i, "TypeError: Invalid sample_sets", {})
    ELSE Ok(a, i, arg, <<>>, {})

-----------------------------------------------------------------------------
(* Arrays.  A one-dimensional array is a sequence over the positions; a    *)
(* genotype array is the sequence of its columns (the sample axis), each a *)
(* sequence over the positions.                                            *)

NoMask == "None"

\* root[contig]["calldata"][field] of the store of one sample set
GenotypeArray(f, sample_set, contig, field) ==
    [c \in 1..Len(SamplesOf(sample_set)) |->
        [j \in 1..Len(f.pos[contig]) |-> <<field, SamplesOf(sample_set)[c], j>>]]

RECURSIVE SelectByMask(_, _, _)
\* the elements of d at the True places of condition, from the n-th place on
SelectByMask(condition, d, n) ==
    IF n > Len(condition) THEN <<>>
    ELSE IF condition[n] THEN <<d[n]>> \o SelectByMask(condition, d, n + 1)
    ELSE SelectByMask(condition, d, n + 1)

\* da.compress(condition, d, axis=0) on a one-dimensional array: raises when
\* the condition is longer than the array
Compress1(condition, d) ==
    IF Len(condition) > Len(d) THEN [out |-> "IndexError", val |-> NONE]
    ELSE [out |-> "ok", val |-> SelectByMask(condition, d, 1)]

\* da.compress(condition, d, axis=0) on a genotype array
Compress2(condition, d) ==
    IF \E c \in 1..Len(d) : Len(condition) > Len(d[c])
    THEN [out |-> "IndexError", val |-> NONE]
    ELSE [out |-> "ok", val |-> [c \in 1..Len(d) |-> SelectByMask(condition, d[c], 1)]]

\* root[contig]["variants"]["filter_pass"] of the opened site filters r
FilterPassOf(r, f, contig, mask) ==
    IF r.out # "ok" THEN r
    ELSE IF contig \notin Contigs THEN Raise(r.ag3, r.io, "KeyError", r.tried)
    ELSE [r EXCEPT !.val = f.filter_pass[mask][contig]]

site_filters(a, i, f, bad, contig, mask, analysis) ==
    FilterPassOf(open_site_filters(a, i, f, bad, mask, analysis), f, contig, mask)

RECURSIVE ConcatColumns(_, _)
\* da.concatenate(ds, axis=1), from the n-th array on
ConcatColumns(ds, n) ==
    IF n > Len(ds) THEN <<>> ELSE ds[n] \o ConcatColumns(ds, n + 1)

RECURSIVE ConcatColumnsReversed(_, _)
ConcatColumnsReversed(ds, n) ==
    IF n > Len(ds) THEN <<>> ELSE ConcatColumnsReversed(ds, n + 1) \o ds[n]

\* the arrays joined last first
JoinGenotypesReversed(ds) == ConcatColumnsReversed(ds, 1)

\* the arrays of the list branch of snp_genotypes joined along the sample axis
JoinGenotypes(ds) == ConcatColumns(ds, 1)

RECURSIVE snp_genotypes(_, _, _, _, _, _, _, _, _)
RECURSIVE GenotypesEach(_, _, _, _, _, _, _, _, _, _, _)
RECURSIVE GenotypesNext(_, _, _, _, _, _, _, _, _, _)
RECURSIVE GenotypesOf(_, _, _, _, _)

\* the list comprehension of snp_genotypes after its n-th element gave r
GenotypesNext(r, f, bad, contig, items, field, n, ds, o, t) ==
    IF r.out # "ok" THEN [r EXCEPT !.tried = t \cup r.tried]
    ELSE GenotypesEach(r.ag3, r.io, f, bad, contig, items, field, n + 1,
                       Append(ds, r.val), o \o r.order, t \cup r.tried)

\* the list comprehension of snp_genotypes from the n-th element on: ds are the
\* arrays so far, o the sample sets visited, t the paths tried
GenotypesEach(a, i, f, bad, contig, items, field, n, ds, o, t) ==
    IF n > Len(items)
    THEN Ok(a, i, ds, o, t)
    ELSE GenotypesNext(snp_genotypes(a, i, f, bad, contig, items[n], field, NoMask,
                                     "dt_20200416"),
                       f, bad, contig, items, field, n, ds, o, t)

\* the single branch after the store was opened: root[contig]["calldata"][field]
SingleGenotypes(r, p, f, contig, field) ==
    IF r.out # "ok" THEN [r EXCEPT !.tried = p.tried \cup r.tried]
    ELSE IF contig \notin Contigs \/ field \notin CallFields
    THEN Raise(r.ag3, r.io, "KeyError", p.tried \cup r.tried)
    ELSE Ok(r.ag3, r.io, GenotypeArray(f, p.val.v, contig, field), <<p.val.v>>,
            p.tried \cup r.tried)

\* the list branch after the comprehension: da.concatenate(ds, axis=1)
JoinedGenotypes(e) ==
    IF e.out # "ok" THEN e
    ELSE IF Len(e.val) = 0
    THEN Raise(e.ag3, e.io, "ValueError: nothing to concatenate", e.tried)
    ELSE [e EXCEPT !.val = JoinGenotypes(e.val)]

\* snp_genotypes after _prep_sample_sets_arg gave p
GenotypesOf(p, f, bad, contig, field) ==
    IF p.out # "ok" THEN p
    ELSE IF IsStr(p.val)
    THEN SingleGenotypes(open_snp_genotypes(p.ag3, p.io, f, bad, p.val.v), p, f,
                         contig, field)
    ELSE JoinedGenotypes(GenotypesEach(p.ag3, p.io, f, bad, contig, p.val.v, field,
                                       1, <<>>, <<>>, p.tried))

\* the result of da.compress(filter_pass, d, axis=0)
CompressedBy(c, fp, d) ==
    IF c.out # "ok" THEN Raise(fp.ag3, fp.io, c.out, d.tried \cup fp.tried)
    ELSE Ok(fp.ag3, fp.io, c.val, d.order, d.tried \cup fp.tried)

\* the site_mask branch of snp_genotypes, fp being the computed filter
MaskGenotypes(fp, d) ==
    IF fp.out # "ok" THEN [fp EXCEPT !.tried = d.tried \cup fp.tried]
    ELSE CompressedBy(Compress2(fp.val, d.val), fp, d)

\* the end of snp_genotypes: the site mask applied to d when one is given
ApplyMask(d, f, bad, contig, site_mask, analysis) ==
    IF d.out # "ok" \/ site_mask = NoMask THEN d
    ELSE MaskGenotypes(site_filters(d.ag3, d.io, f, bad, contig, site_mask, analysis),
                       d)

snp_genotypes(a, i, f, bad, contig, arg, field, site_mask, site_filters_analysis) ==
    ApplyMask(GenotypesOf(prep_sample_sets_arg(a, i, f, bad, arg), f, bad, contig,
                          field),
              f, bad, contig, site_mask, site_filters_analysis)

-----------------------------------------------------------------------------
(* The cache layer: the constructor and the seven open / read operations *)

NoCall ==
    [op |-> "none", arg |-> NONE, bad |-> {}, out |-> NONE, val |-> NONE,
     order |-> <<>>, tried |-> {}]

\* the effect of one call on the instance, the log and the record of the call
Call(op, arg, bad, r) ==
    /\ ag3' = r.ag3
    /\ io' = r.io
    /\ ret' = [op |-> op, arg |-> arg, bad |-> bad, out |-> r.out, val |-> r.val,
               order |-> r.order, tried |-> r.tried]

ReleaseArgs == {"v3", "v3.1", "v2"}
SampleSetArgs == {"SS1", "ZZ"}
MaskArgs == {"gamb_colu", "funestus"}

\* the data files and array hierarchies, the manifests apart
DataPaths ==
    {GeneralPath(r, ss) : r \in ReleaseDirs, ss \in SampleSetsOnDisk}
    \cup {SnpGenotypesPath(r, ss) : r \in ReleaseDirs, ss \in SampleSetsOnDisk}
    \cup {SpeciesPath(r, ss, "20200422", "aim") : r \in ReleaseDirs,
                                                  ss \in SampleSetsOnDisk}
    \cup {SiteFiltersPath(m, "dt_20200416") : m \in Masks}
    \cup {SnpSitesPath, GenomePath}

\* the sets of paths that fail during one call: none, every data path, or the
\* manifest of the public release
BadSets == {{}, DataPaths, {ManifestPath("v3")}}

Construct ==
    /\ ag3.state = "none"
    /\ \E listing \in Listings, pre \in BOOLEAN :
          /\ ag3' = Ag3_init(listing, pre)
          /\ ret' = [NoCall EXCEPT !.op = "init", !.arg = <<listing, pre>>,
                                   !.out = IF ag3'.state = "ready" THEN "ok"
                                           ELSE "ValueError: No releases found"]
    /\ UNCHANGED <<fs, io, ncalls>>

SampleSets ==
    /\ ag3.state = "ready"
    /\ \E release \in ReleaseArgs, bad \in BadSets :
          Call("sample_sets", release, bad, sample_sets(ag3, io, fs, bad, release))
    /\ UNCHANGED <<fs, ncalls>>

ReadGeneralMetadata ==
    /\ ag3.state = "ready"
    /\ \E sample_set \in SampleSetArgs, bad \in BadSets :
          Call("_read_general_metadata", sample_set, bad,
               read_general_metadata(ag3, io, fs, bad, sample_set))
    /\ UNCHANGED <<fs, ncalls>>

ReadSpeciesCalls ==
    /\ ag3.state = "ready"
    /\ \E sample_set \in SampleSetArgs, analysis \in SpeciesAnalyses,
          method \in SpeciesMethods, bad \in BadSets :
          Call("_read_species_calls", <<sample_set, analysis, method>>, bad,
               read_species_calls(ag3, io, fs, bad, sample_set, analysis, method))
    /\ UNCHANGED <<fs, ncalls>>

OpenSiteFilters ==
    /\ ag3.state = "ready"
    /\ \E mask \in MaskArgs, analysis \in SiteAnalyses, bad \in BadSets :
          Call("_open_site_filters", <<mask, analysis>>, bad,
               open_site_filters(ag3, io, fs, bad, mask, analysis))
    /\ UNCHANGED <<fs, ncalls>>

OpenSnpSites ==
    /\ ag3.state = "ready"
    /\ \E bad \in BadSets :
          Call("_open_snp_sites", NONE, bad, open_snp_sites(ag3, io, fs, bad))
    /\ UNCHANGED <<fs, ncalls>>

OpenSnpGenotypes ==
    /\ ag3.state = "ready"
    /\ \E sample_set \in SampleSetArgs, bad \in BadSets :
          Call("_open_snp_genotypes", sample_set, bad,
               open_snp_genotypes(ag3, io, fs, bad, sample_set))
    /\ UNCHANGED <<fs, ncalls>>

OpenGenome ==
    /\ ag3.state = "ready"
    /\ \E bad \in BadSets :
          Call("_open_genome", NONE, bad, open_genome(ag3, io, fs, bad))
    /\ UNCHANGED <<fs, ncalls>>

Init ==
    /\ fs = DefaultFs
    /\ ag3 = NoInstance
    /\ io = <<>>
    /\ ret = NoCall
    /\ ncalls = 0

Next ==
    \/ Construct
    \/ SampleSets
    \/ ReadGeneralMetadata
    \/ ReadSpeciesCalls
    \/ OpenSiteFilters
    \/ OpenSnpSites
    \/ OpenSnpGenotypes
    \/ OpenGenome

Spec == Init /\ [][Next]_vars

-----------------------------------------------------------------------------
(* Metadata tables: [index, rows], rows being records of the columns *)

NoSpeciesCalls == <<>>
DefaultSpeciesCalls == <<"20200422", "aim">>

RangeIndex(n) == [j \in 1..n |-> j - 1]

\* the rows of right that share the sample_id of the left row l, joined to it
MatchesOf(l, right) ==
    [k \in 1..Len(SelectSeq(right, LAMBDA r : r.sample_id = l.sample_id)) |->
        l @@ SelectSeq(right, LAMBDA r : r.sample_id = l.sample_id)[k]]

RECURSIVE MergeFrom(_, _, _)
MergeFrom(left, right, j) ==
    IF j > Len(left) THEN <<>>
    ELSE MatchesOf(left[j], right) \o MergeFrom(left, right, j + 1)

\* a table of the rows, with a new index
Reindexed(rows) == [index |-> RangeIndex(Len(rows)), rows |-> rows]

\* df.merge(df_species, on="sample_id", sort=False): an inner join in the
\* order of the left rows, with a new index
Merge(df, df_species) == Reindexed(MergeFrom(df.rows, df_species.rows, 1))

RECURSIVE ConcatIndex(_, _)
ConcatIndex(dfs, n) ==
    IF n > Len(dfs) THEN <<>> ELSE dfs[n].index \o ConcatIndex(dfs, n + 1)

RECURSIVE ConcatRows(_, _)
ConcatRows(dfs, n) ==
    IF n > Len(dfs) THEN <<>> ELSE dfs[n].rows \o ConcatRows(dfs, n + 1)

\* pandas.concat(dfs, axis=0, sort=False): the rows, with the index labels they had
ConcatTables(dfs) == [index |-> ConcatIndex(dfs, 1), rows |-> ConcatRows(dfs, 1)]

\* a table keeping the index labels it has
KeepIndex(df) == df

\* .reset_index(drop=True)
ResetIndex(df) == [index |-> RangeIndex(Len(df.rows)), rows |-> df.rows]

RECURSIVE sample_metadata(_, _, _, _, _, _)
RECURSIVE MetadataEach(_, _, _, _, _, _, _, _, _, _)
RECURSIVE MetadataNext(_, _, _, _, _, _, _, _, _)
RECURSIVE MetadataOf(_, _, _, _)

\* the list comprehension of sample_metadata after its n-th element gave r
MetadataNext(r, f, bad, items, species_calls, n, dfs, o, t) ==
    IF r.out # "ok" THEN [r EXCEPT !.tried = t \cup r.tried]
    ELSE MetadataEach(r.ag3, r.io, f, bad, items, species_calls, n + 1,
                      Append(dfs, r.val), o \o r.order, t \cup r.tried)

\* the list comprehension of sample_metadata from the n-th element on
MetadataEach(a, i, f, bad, items, species_calls, n, dfs, o, t) ==
    IF n > Len(items)
    THEN Ok(a, i, dfs, o, t)
    ELSE MetadataNext(sample_metadata(a, i, f, bad, items[n], species_calls),
                      f, bad, items, species_calls, n, dfs, o, t)

\* the join of the general metadata g with the species calls sp
MergedMetadata(sp, g, p) ==
    IF sp.out # "ok" THEN [sp EXCEPT !.tried = p.tried \cup g.tried \cup sp.tried]
    ELSE Ok(sp.ag3, sp.io, Merge(g.val, sp.val), <<p.val.v>>,
            p.tried \cup g.tried \cup sp.tried)

\* the single branch after the general metadata g was read
SingleMetadata(g, p, f, bad, species_calls) ==
    IF g.out # "ok" THEN [g EXCEPT !.tried = p.tried \cup g.tried]
    ELSE IF species_calls = NoSpeciesCalls
    THEN [g EXCEPT !.order = <<p.val.v>>, !.tried = p.tried \cup g.tried]
    ELSE MergedMetadata(read_species_calls(g.ag3, g.io, f, bad, p.val.v,
                                           species_calls[1], species_calls[2]),
                        g, p)

\* the list branch after the comprehension: concat and reset_index
JoinedMetadata(e) ==
    IF e.out # "ok" THEN e
    ELSE IF Len(e.val) = 0
    THEN Raise(e.ag3, e.io, "ValueError: No objects to concatenate", e.tried)
    ELSE [e EXCEPT !.val = ResetIndex(ConcatTables(e.val))]

\* sample_metadata after _prep_sample_sets_arg gave p
MetadataOf(p, f, bad, species_calls) ==
    IF p.out # "ok" THEN p
    ELSE IF IsStr(p.val)
    THEN SingleMetadata(read_general_metadata(p.ag3, p.io, f, bad, p.val.v), p, f,
                        bad, species_calls)
    ELSE JoinedMetadata(MetadataEach(p.ag3, p.io, f, bad, p.val.v, species_calls, 1,
                                     <<>>, <<>>, p.tried))

sample_metadata(a, i, f, bad, arg, species_calls) ==
    MetadataOf(prep_sample_sets_arg(a, i, f, bad, arg), f, bad, species_calls)

-----------------------------------------------------------------------------
(* Composition over sample sets: one public call on a constructed instance *)

\* the names given as elements of a list
ListElems == {"SS1", "SS2", "v3"}

\* the names given alone
ScalarNames ==
    {"SS1", "SS2", "AG1000G-X", "SS3", "v3", "v3.1", "v3.9", "v3_wild", "ZZ"}

SampleSetsArgs ==
    {Str(x) : x \in ScalarNames}
    \cup {StrList(xs) : xs \in SeqsUpTo(ListElems, MaxArgLen)}
    \cup {Other, List(<<StrList(<<"SS2", "SS1">>), Str("v3_wild")>>),
          StrList(<<"SS1", "ZZ">>), StrList(<<"v3.9", "SS1">>)}

ResolveBadSets == {{}, DataPaths}

\* the storage and the constructor arguments of the composed instances: release
\* v3 alone with the manifest [SS1, SS2], and a pre-release listed before v3
ResolveConfigs ==
    {[manifest |-> <<"SS1", "SS2">>, pre |-> FALSE,
      listing |-> << <<RootPath, "v3">> >>],
     [manifest |-> <<"SS2", "AG1000G-X", "SS1">>, pre |-> TRUE,
      listing |-> << <<RootPath, "v3.1">>, <<RootPath, "reference">>,
                     <<RootPath, "v3">> >>]}

SnpGenotypes ==
    /\ ag3.state = "ready"
    /\ ncalls < MaxCalls
    /\ \E arg \in SampleSetsArgs, site_mask \in {NoMask, "gamb_colu"},
          bad \in ResolveBadSets :
          Call("snp_genotypes", <<"3R", arg, "GT", site_mask>>, bad,
               snp_genotypes(ag3, io, fs, bad, "3R", arg, "GT", site_mask,
                             "dt_20200416"))
    /\ ncalls' = ncalls + 1
    /\ UNCHANGED fs

SampleMetadata ==
    /\ ag3.state = "ready"
    /\ ncalls < MaxCalls
    /\ \E arg \in SampleSetsArgs,
          species_calls \in {NoSpeciesCalls, DefaultSpeciesCalls},
          bad \in ResolveBadSets :
          Call("sample_metadata", <<arg, species_calls>>, bad,
               sample_metadata(ag3, io, fs, bad, arg, species_calls))
    /\ ncalls' = ncalls + 1
    /\ UNCHANGED fs

InitResolve ==
    /\ \E c \in ResolveConfigs :
          /\ fs = [DefaultFs EXCEPT !.manifest["v3"] = c.manifest]
          /\ ag3 = Ag3_init(c.listing, c.pre)
    /\ io = <<>>
    /\ ret = NoCall
    /\ ncalls = 0

NextResolve ==
    \/ SnpGenotypes
    \/ SampleMetadata

SpecResolve == InitResolve /\ [][NextResolve]_vars

-----------------------------------------------------------------------------
(* Sites, the reference sequence and accessibility *)

NoField == "None"

\* genome[contig]: the reference bases of a contig
GenomeArray(contig) == [j \in 1..GenomeLen |-> <<"base", j>>]

\* root[contig]["variants"][field] of the SNP sites
SiteArray(f, contig, field) ==
    IF field = "POS" THEN f.pos[contig]
    ELSE [j \in 1..Len(f.pos[contig]) |-> <<field, f.pos[contig][j]>>]

\* genome[contig] of the opened genome r
SequenceOf(r, contig) ==
    IF r.out # "ok" THEN r
    ELSE IF contig \notin Contigs THEN Raise(r.ag3, r.io, "KeyError", r.tried)
    ELSE [r EXCEPT !.val = GenomeArray(contig)]

genome_sequence(a, i, f, bad, contig) ==
    SequenceOf(open_genome(a, i, f, bad), contig)

\* the else branch of snp_sites after the sites r were opened
SiteFieldOf(r, f, contig, field) ==
    IF r.out # "ok" THEN r
    ELSE IF contig \notin Contigs \/ field \notin SiteFields
    THEN Raise(r.ag3, r.io, "KeyError", r.tried)
    ELSE [r EXCEPT !.val = SiteArray(f, contig, field)]

\* snp_sites(contig=contig, field=field, site_mask=None)
UnmaskedSites(a, i, f, bad, contig, field) ==
    SiteFieldOf(open_snp_sites(a, i, f, bad), f, contig, field)

\* the tuple of snp_sites with no field, after POS, REF and ALT were read in turn
SitesTuple(rp, rr, ra) ==
    IF rp.out # "ok" THEN rp
    ELSE IF rr.out # "ok" THEN [rr EXCEPT !.tried = rp.tried \cup rr.tried]
    ELSE IF ra.out # "ok"
    THEN [ra EXCEPT !.tried = rp.tried \cup rr.tried \cup ra.tried]
    ELSE Ok(ra.ag3, ra.io, <<rp.val, rr.val, ra.val>>, <<>>,
            rp.tried \cup rr.tried \cup ra.tried)

\* the three reads chained: each on the instance the one before left
SitesAfterRef(rp, rr, f, bad, contig) ==
    SitesTuple(rp, rr, UnmaskedSites(rr.ag3, rr.io, f, bad, contig, "ALT"))

SitesAfterPos(rp, f, bad, contig) ==
    SitesAfterRef(rp, UnmaskedSites(rp.ag3, rp.io, f, bad, contig, "REF"), f, bad,
                  contig)

AllSites(a, i, f, bad, contig) ==
    SitesAfterPos(UnmaskedSites(a, i, f, bad, contig, "POS"), f, bad, contig)

\* da.compress on the three arrays of the tuple, or on the one array
CompressSites(fp, d, is_tuple) ==
    IF is_tuple
    THEN IF \E k \in 1..3 : Compress1(fp.val, d.val[k]).out # "ok"
         THEN Raise(fp.ag3, fp.io, "IndexError", d.tried \cup fp.tried)
         ELSE Ok(fp.ag3, fp.io, [k \in 1..3 |-> Compress1(fp.val, d.val[k]).val],
                 <<>>, d.tried \cup fp.tried)
    ELSE IF Compress1(fp.val, d.val).out # "ok"
    THEN Raise(fp.ag3, fp.io, "IndexError", d.tried \cup fp.tried)
    ELSE Ok(fp.ag3, fp.io, Compress1(fp.val, d.val).val, <<>>, d.tried \cup fp.tried)

\* the site_mask branch of snp_sites, fp being the computed filter
MaskSites(fp, d, is_tuple) ==
    IF fp.out # "ok" THEN [fp EXCEPT !.tried = d.tried \cup fp.tried]
    ELSE CompressSites(fp, d, is_tuple)

\* the end of snp_sites: the site mask applied to ret when one is given
ApplySiteMask(d, f, bad, contig, field, site_mask, analysis) ==
    IF d.out # "ok" \/ site_mask = NoMask THEN d
    ELSE MaskSites(site_filters(d.ag3, d.io, f, bad, contig, site_mask, analysis), d,
                   field = NoField)

\* the arrays read with the caller's site_mask handed down to the inner calls
SitesMaskedInside(a, i, f, bad, contig, field, site_mask, analysis) ==
    IF field = NoField
    THEN ApplySiteMask(AllSites(a, i, f, bad, contig), f, bad, contig, field,
                       site_mask, analysis)
    ELSE UnmaskedSites(a, i, f, bad, contig, field)

\* the arrays snp_sites selects from: read with site_mask=None
SitesUnmasked(a, i, f, bad, contig, field, site_mask, analysis) ==
    IF field = NoField THEN AllSites(a, i, f, bad, contig)
    ELSE UnmaskedSites(a, i, f, bad, contig, field)

snp_sites(a, i, f, bad, contig, field, site_mask, site_filters_analysis) ==
    ApplySiteMask(SitesUnmasked(a, i, f, bad, contig, field, site_mask,
                                site_filters_analysis),
                  f, bad, contig, field, site_mask, site_filters_analysis)

\* the index without the shift to 0-based
AccessIndexUnshifted(p) == p

\* the index pos - 1 of the assignment, in a vector indexed from 0
AccessIndex(p) == p - 1

\* a Python index on an array of length n, as a place from 1: a negative index
\* counts from the end
Place(ix, n) == IF ix < 0 THEN ix + n + 1 ELSE ix + 1

RECURSIVE AssignFrom(_, _, _, _)
\* is_accessible[pos - 1] = filter_pass, element by element from the n-th on
AssignFrom(vec, pos, filter_pass, n) ==
    IF n > Len(pos) THEN vec
    ELSE AssignFrom([vec EXCEPT ![Place(AccessIndex(pos[n]), Len(vec))] =
                        filter_pass[n]],
                    pos, filter_pass, n + 1)

\* the assignment of is_accessible, with the errors numpy raises
Accessible(seq_length, pos, filter_pass) ==
    IF \E n \in 1..Len(pos) :
          AccessIndex(pos[n]) >= seq_length \/ AccessIndex(pos[n]) < -seq_length
    THEN [out |-> "IndexError", val |-> NONE]
    ELSE IF Len(filter_pass) # Len(pos)
    THEN [out |-> "ValueError: shape mismatch", val |-> NONE]
    ELSE [out |-> "ok",
          val |-> AssignFrom([j \in 1..seq_length |-> FALSE], pos, filter_pass, 1)]

\* is_accessible after the sequence g, the positions ps and the filter fp
AccessibleOf(g, ps, fp) ==
    IF Accessible(Len(g.val), ps.val, fp.val).out # "ok"
    THEN Raise(fp.ag3, fp.io, Accessible(Len(g.val), ps.val, fp.val).out,
               g.tried \cup ps.tried \cup fp.tried)
    ELSE Ok(fp.ag3, fp.io, Accessible(Len(g.val), ps.val, fp.val).val, <<>>,
            g.tried \cup ps.tried \cup fp.tried)

AccessibleAfterFilter(g, ps, fp) ==
    IF fp.out # "ok" THEN [fp EXCEPT !.tried = g.tried \cup ps.tried \cup fp.tried]
    ELSE AccessibleOf(g, ps, fp)

AccessibleAfterPos(g, ps, f, bad, contig, site_mask, analysis) ==
    IF ps.out # "ok" THEN [ps EXCEPT !.tried = g.tried \cup ps.tried]
    ELSE AccessibleAfterFilter(g, ps, site_filters(ps.ag3, ps.io, f, bad, contig,
                                                   site_mask, analysis))

AccessibleAfterGenome(g, f, bad, contig, site_mask, analysis) ==
    IF g.out # "ok" THEN g
    ELSE AccessibleAfterPos(g, snp_sites(g.ag3, g.io, f, bad, contig, "POS", NoMask,
                                         "dt_20200416"),
                            f, bad, contig, site_mask, analysis)

is_accessible(a, i, f, bad, contig, site_mask, site_filters_analysis) ==
    AccessibleAfterGenome(genome_sequence(a, i, f, bad, contig), f, bad, contig,
                          site_mask, site_filters_analysis)

\* the strictly increasing sequences of positions in 1..n
RECURSIVE SitePositions(_)
SitePositions(n) ==
    IF n = 0 THEN {<<>>}
    ELSE SitePositions(n - 1) \cup {Append(s, n) : s \in SitePositions(n - 1)}

\* the boolean arrays of length n
Filters(n) == [1..n -> BOOLEAN]

ContigArgs == {"3R", "2L"}
SitesBadSets == {{}, {SnpSitesPath}}

SnpSites ==
    /\ ag3.state = "ready"
    /\ ncalls < MaxCalls
    /\ \E contig \in ContigArgs, field \in SiteFields \cup {NoField},
          site_mask \in Masks \cup {NoMask}, bad \in SitesBadSets :
          Call("snp_sites", <<contig, field, site_mask>>, bad,
               snp_sites(ag3, io, fs, bad, contig, field, site_mask, "dt_20200416"))
    /\ ncalls' = ncalls + 1
    /\ UNCHANGED fs

SiteFilters ==
    /\ ag3.state = "ready"
    /\ ncalls < MaxCalls
    /\ \E contig \in ContigArgs, mask \in Masks, bad \in SitesBadSets :
          Call("site_filters", <<contig, mask>>, bad,
               site_filters(ag3, io, fs, bad, contig, mask, "dt_20200416"))
    /\ ncalls' = ncalls + 1
    /\ UNCHANGED fs

GenomeSequence ==
    /\ ag3.state = "ready"
    /\ ncalls < MaxCalls
    /\ \E contig \in ContigArgs, bad \in SitesBadSets :
          Call("genome_sequence", contig, bad,
               genome_sequence(ag3, io, fs, bad, contig))
    /\ ncalls' = ncalls + 1
    /\ UNCHANGED fs

IsAccessible ==
    /\ ag3.state = "ready"
    /\ ncalls < MaxCalls
    /\ \E contig \in ContigArgs, site_mask \in Masks, bad \in SitesBadSets :
          Call("is_accessible", <<contig, site_mask>>, bad,
               is_accessible(ag3, io, fs, bad, contig, site_mask, "dt_20200416"))
    /\ ncalls' = ncalls + 1
    /\ UNCHANGED fs

\* an instance on release v3; the sites of contig 3R are any positions of the
\* reference in increasing order, the gamb_colu filter any array over them
InitSites ==
    /\ \E pos \in SitePositions(GenomeLen) : \E fp \in Filters(Len(pos)) :
          fs = [DefaultFs EXCEPT
                  !.pos["3R"] = pos,
                  !.filter_pass["gamb_colu"]["3R"] = fp,
                  !.filter_pass["arab"]["3R"] = [j \in 1..Len(pos) |-> TRUE]]
    /\ ag3 = Ag3_init(<< <<RootPath, "v3">> >>, FALSE)
    /\ io = <<>>
    /\ ret = NoCall
    /\ ncalls = 0

NextSites ==
    \/ SnpSites
    \/ SiteFilters
    \/ GenomeSequence
    \/ IsAccessible

SpecSites == InitSites /\ [][NextSites]_vars

-----------------------------------------------------------------------------
(* Species calls over every combination of the raw columns *)

RawCalls == {"arabiensis", "intermediate", "gamb_colu", "gambiae", "coluzzii", NaN}

\* the species-calls files of a sample set with the given sample ids
SpeciesFiles(ids) ==
    {[j \in 1..Len(ids) |->
        [sample_id |-> ids[j], species_gambcolu_arabiensis |-> ga[j],
         species_gambiae_coluzzii |-> gc[j]]] :
        ga \in [1..Len(ids) -> RawCalls], gc \in [1..Len(ids) -> RawCalls]}

InitSpecies ==
    /\ \E rows \in SpeciesFiles(SamplesOf("SS1")) :
          fs = [DefaultFs EXCEPT !.species["SS1"] = rows]
    /\ ag3 = Ag3_init(<< <<RootPath, "v3">> >>, FALSE)
    /\ io = <<>>
    /\ ret = NoCall
    /\ ncalls = 0

NextSpecies == ReadSpeciesCalls

SpecSpecies == InitSpecies /\ [][NextSpecies]_vars

-----------------------------------------------------------------------------
(* Callers sharing one instance: _open_snp_sites and _open_snp_genotypes run
   statement by statement by several threads, each making one call.  Here ret
   holds one frame per thread: the call it is in, its position in the method
   and its locals; a thread may be switched between any two statements.  The
   nested _lookup_release runs as one step. *)

Threads == 1..NumThreads

\* the cache keys the callers ask for
RaceKeys == {<<"_open_snp_sites", NONE>>} \cup
            {<<"_open_snp_genotypes", x>> : x \in SampleSetArgs}

RaceBadSets == {{}, DataPaths}

\* a thread that has not made its call
IdleFrame ==
    [pc |-> "idle", key |-> <<NONE, NONE>>, bad |-> {}, release |-> NONE,
     root |-> NoneObj, out |-> NONE, val |-> NONE, raced |-> {}]

\* the test at the head of the method: the entry is absent
Missing(a, k) ==
    IF k[1] = "_open_snp_sites" THEN IsNone(a.cache_snp_sites)
    ELSE ~CacheHit(a.cache_snp_genotypes, k[2])

\* the path the method opens
RacePath(k, release) ==
    IF k[1] = "_open_snp_sites" THEN SnpSitesPath
    ELSE SnpGenotypesPath(release, k[2])

\* an assignment to the cache that is lost
StoreNothing(a, k, root) == a

\* self._cache_snp_sites = root / self._cache_snp_genotypes[sample_set] = root
StoreRoot(a, k, root) ==
    IF k[1] = "_open_snp_sites" THEN [a EXCEPT !.cache_snp_sites = root]
    ELSE [a EXCEPT !.cache_snp_genotypes = DictSet(@, k[2], root)]

\* the thread is past the miss and before the store of key k
InWindow(fr, k) == fr.key = k /\ fr.pc \in {"release", "open", "store"}

\* a caller enters one of the two methods
RaceBegin ==
    \E t \in Threads, k \in RaceKeys, bad \in RaceBadSets :
        /\ ag3.state = "ready"
        /\ ret[t].pc = "idle"
        /\ ret' = [ret EXCEPT ![t] =
                     [@ EXCEPT !.pc = "lookup", !.key = k, !.bad = bad,
                               !.release = NONE, !.root = NoneObj, !.out = NONE,
                               !.val = NONE]]
        /\ ncalls' = ncalls + 1
        /\ UNCHANGED <<fs, ag3, io>>

\* if self._cache_snp_sites is None / try: return self._cache_snp_genotypes[sample_set]
RaceLookup ==
    \E t \in Threads :
        /\ ret[t].pc = "lookup"
        /\ ret' = [ret EXCEPT ![t] =
                     IF Missing(ag3, ret[t].key)
                     THEN [@ EXCEPT
                             !.pc = IF ret[t].key[1] = "_open_snp_sites"
                                    THEN "open" ELSE "release",
                             !.raced = IF \E u \in Threads \ {t} :
                                              InWindow(ret[u], ret[t].key)
                                       THEN @ \cup {ret[t].key} ELSE @]
                     ELSE IF ret[t].key[1] = "_open_snp_sites"
                     THEN [@ EXCEPT !.pc = "return"]
                     ELSE [@ EXCEPT !.pc = "done", !.out = "ok",
                                    !.val = ag3.cache_snp_genotypes[ret[t].key[2]]]]
        /\ UNCHANGED <<fs, ag3, io, ncalls>>

\* the frame after release = self._lookup_release(sample_set=sample_set) gave l
AfterRelease(fr, l) ==
    IF l.out # "ok" THEN [fr EXCEPT !.pc = "done", !.out = l.out]
    ELSE [fr EXCEPT !.pc = "open", !.release = l.val]

\* the shared state after the lookup l of thread t
Released(t, l) ==
    /\ ag3' = l.ag3
    /\ io' = l.io
    /\ ret' = [ret EXCEPT ![t] = AfterRelease(@, l)]

\* release = self._lookup_release(sample_set=sample_set)
RaceRelease ==
    \E t \in Threads :
        /\ ret[t].pc = "release"
        /\ Released(t, lookup_release(ag3, io, fs, ret[t].bad, ret[t].key[2]))
        /\ UNCHANGED <<fs, ncalls>>

\* store = SafeStore(...); root = zarr.open_consolidated(store=store)
RaceOpen ==
    \E t \in Threads :
        /\ ret[t].pc = "open"
        /\ IF ~CanOpen(fs, ret[t].bad, RacePath(ret[t].key, ret[t].release))
           THEN /\ ret' = [ret EXCEPT ![t] = [@ EXCEPT !.pc = "done", !.out = "IOError"]]
                /\ io' = io
           ELSE /\ ret' = [ret EXCEPT ![t] =
                             [@ EXCEPT !.pc = "store",
                                       !.root = ZarrRoot(io, ret[t].key,
                                                   RacePath(ret[t].key, ret[t].release))]]
                /\ io' = LogOpen(io, ret[t].key)
        /\ UNCHANGED <<fs, ag3, ncalls>>

\* the assignment of root to the cache
RaceStore ==
    \E t \in Threads :
        /\ ret[t].pc = "store"
        /\ ag3' = StoreRoot(ag3, ret[t].key, ret[t].root)
        /\ ret' = [ret EXCEPT ![t] = [@ EXCEPT !.pc = "return"]]
        /\ UNCHANGED <<fs, io, ncalls>>

\* return self._cache_snp_sites / return root
RaceReturn ==
    \E t \in Threads :
        /\ ret[t].pc = "return"
        /\ ret' = [ret EXCEPT ![t] =
                     [@ EXCEPT !.pc = "done", !.out = "ok",
                               !.val = IF ret[t].key[1] = "_open_snp_sites"
                                       THEN ag3.cache_snp_sites ELSE ret[t].root]]
        /\ UNCHANGED <<fs, ag3, io, ncalls>>

InitRace ==
    /\ fs = DefaultFs
    /\ ag3 = Ag3_init(<< <<RootPath, "v3">> >>, FALSE)
    /\ io = <<>>
    /\ ret = [t \in Threads |-> IdleFrame]
    /\ ncalls = 0

NextRace ==
    \/ RaceBegin
    \/ RaceLookup
    \/ RaceRelease
    \/ RaceOpen
    \/ RaceStore
    \/ RaceReturn

SpecRace == InitRace /\ [][NextRace]_vars

-----------------------------------------------------------------------------
(* Properties of the cache layer *)

OpenOps ==
    {"sample_sets", "_read_general_metadata", "_read_species_calls",
     "_open_site_filters", "_open_snp_sites", "_open_snp_genotypes", "_open_genome"}

\* the (operation, key) pairs that have an entry in the instance's caches
Entries(a) ==
    {<<"sample_sets", k>> : k \in DOMAIN a.cache_sample_sets}
    \cup {<<"_read_general_metadata", k>> : k \in DOMAIN a.cache_general_metadata}
    \cup {<<"_read_species_calls", k>> : k \in DOMAIN a.cache_species_calls}
    \cup {<<"_open_site_filters", k>> : k \in DOMAIN a.cache_site_filters}
    \cup {<<"_open_snp_genotypes", k>> : k \in DOMAIN a.cache_snp_genotypes}
    \cup (IF a.cache_snp_sites.id # <<>> THEN {<<"_open_snp_sites", NONE>>} ELSE {})
    \cup (IF a.cache_genome.id # <<>> THEN {<<"_open_genome", NONE>>} ELSE {})

\* the object stored under an (operation, key) pair
EntryOf(a, e) ==
    CASE e[1] = "sample_sets" -> a.cache_sample_sets[e[2]]
      [] e[1] = "_read_general_metadata" -> a.cache_general_metadata[e[2]]
      [] e[1] = "_read_species_calls" -> a.cache_species_calls[e[2]]
      [] e[1] = "_open_site_filters" -> a.cache_site_filters[e[2]]
      [] e[1] = "_open_snp_genotypes" -> a.cache_snp_genotypes[e[2]]
      [] e[1] = "_open_snp_sites" -> a.cache_snp_sites
      [] OTHER -> a.cache_genome

\* the whole cache of one operation
CacheOf(a, op) ==
    CASE op = "sample_sets" -> a.cache_sample_sets
      [] op = "_read_general_metadata" -> a.cache_general_metadata
      [] op = "_read_species_calls" -> a.cache_species_calls
      [] op = "_open_site_filters" -> a.cache_site_filters
      [] op = "_open_snp_genotypes" -> a.cache_snp_genotypes
      [] op = "_open_snp_sites" -> a.cache_snp_sites
      [] OTHER -> a.cache_genome

\* C1: for every open / read operation and key, the physical open has succeeded
\* at most once; the object of that first open is still the one stored (nothing
\* is removed or replaced); and every successful call returns that very object.
C1_OpenOncePerKey ==
    /\ \A k \in DOMAIN io : io[k] <= 1
    /\ \A k \in DOMAIN io :
          io[k] >= 1 => k \in Entries(ag3) /\ EntryOf(ag3, k).id = <<k[1], k[2], 1>>
    /\ \A e \in Entries(ag3) : Opens(io, e) = 1
    /\ (ret.op \in OpenOps /\ ret.out = "ok") =>
          /\ ret.val.id = <<ret.op, ret.arg, 1>>
          /\ ret.val = EntryOf(ag3, <<ret.op, ret.arg>>)

\* C1 witness: a call answered from the cache, with no open tried
C1_Witness ==
    /\ ret.op = "_open_snp_genotypes"
    /\ ret.out = "ok"
    /\ ret.tried = {}
    /\ Opens(io, <<"_open_snp_genotypes", "SS1">>) = 1

C2_Step ==
    /\ (ret'.op \in OpenOps /\ ret'.out # "ok") =>
          /\ CacheOf(ag3', ret'.op) = CacheOf(ag3, ret'.op)
          /\ <<ret'.op, ret'.arg>> \notin Entries(ag3') \ Entries(ag3)
    /\ (ret'.op \in OpenOps /\ ret'.out = "ok"
          /\ <<ret'.op, ret'.arg>> \notin Entries(ag3)) =>
          /\ Opens(io', <<ret'.op, ret'.arg>>) = Opens(io, <<ret'.op, ret'.arg>>) + 1
          /\ ret'.tried # {}

\* C2: a call of an open / read operation that fails leaves the cache of that
\* operation as it was, with no entry under the key; and a successful call on a
\* key that has no entry performs the physical open (it is not answered from a
\* stale or partial entry).
C2_AllOrNothing == [][C2_Step]_vars

\* C2 witness: a read failed on storage after the manifest it needed was cached,
\* and its own cache holds no entry for the key
C2_Witness ==
    /\ ret.op = "_read_general_metadata"
    /\ ret.out = "IOError"
    /\ ret.arg = "SS1"
    /\ "SS1" \notin DOMAIN ag3.cache_general_metadata
    /\ "v3" \in DOMAIN ag3.cache_sample_sets

\* the last components of the listed paths that pass the constructor's filters
KeptChildren(listing, pre) ==
    {n \in {p[Len(p)] : p \in Range(listing)} :
        n \in {"v3", "v3.1"} /\ (pre \/ n \in Range(public_releases))}

C3_Inv ==
    /\ ag3.state = "ready" =>
          /\ Len(ag3.releases) > 0
          /\ ~ag3.pre => Range(ag3.releases) \subseteq Range(public_releases)
    /\ ag3.state = "failed" => ag3 = [NoInstance EXCEPT !.state = "failed",
                                                         !.pre = ag3.pre]
    /\ ret.op = "init" =>
          LET kept == KeptChildren(ret.arg[1], ret.arg[2])
          IN  /\ kept = {} => ag3.state = "failed" /\ ret.out # "ok"
              /\ kept # {} => /\ ag3.state = "ready"
                              /\ Range(ag3.releases) = kept
                              /\ ag3.pre = ret.arg[2]

C3_Stable ==
    /\ ag3.state = "ready" => ag3'.state = "ready" /\ ag3'.releases = ag3.releases
    /\ ag3.state = "failed" => ag3' = ag3

\* C3: construction keeps exactly the listed children named with the prefix
\* "v3", and only the public ones unless pre is set; with none left it fails and
\* there is no instance; a constructed instance has a non-empty release list,
\* within the public releases when pre is not set, and the list never changes.
C3_ReleaseDiscovery == []C3_Inv /\ [][C3_Stable]_vars

\* C3 witness: a pre-release directory was listed and left out
C3_Witness ==
    /\ ret.op = "init"
    /\ ag3.state = "ready"
    /\ ~ag3.pre
    /\ <<RootPath, "v3.1">> \in Range(ret.arg[1])
    /\ ag3.releases = <<"v3">>

C4_Step ==
    ret'.op = "sample_sets" =>
        IF ret'.arg \in Range(ag3.releases)
        THEN ret'.out # "ValueError: Release not available"
        ELSE /\ ret'.out = "ValueError: Release not available"
             /\ ret'.tried = {}
             /\ ag3' = ag3
             /\ io' = io

\* C4: sample_sets(release) passes validation for every discovered release, and
\* for any other name raises the release-not-available error with no manifest
\* read and no cache changed, whatever earlier calls have cached.
C4_Validate == [][C4_Step]_vars

\* C4 witness: a release that is on disk but was not discovered is refused
\* after another manifest was cached
C4_Witness ==
    /\ ret.op = "sample_sets"
    /\ ret.arg = "v3.1"
    /\ ret.out = "ValueError: Release not available"
    /\ "v3" \in DOMAIN ag3.cache_sample_sets

-----------------------------------------------------------------------------
(* Properties of the composition over sample sets *)

\* the sample_sets argument of the call recorded in r
ArgOf(r) == IF r.op = "snp_genotypes" THEN r.arg[2] ELSE r.arg[1]

\* the call recorded in r made again with x as sample_sets, on instance a
Again(r, a, i, f, x) ==
    IF r.op = "snp_genotypes"
    THEN snp_genotypes(a, i, f, r.bad, r.arg[1], x, r.arg[3], r.arg[4], "dt_20200416")
    ELSE sample_metadata(a, i, f, r.bad, x, r.arg[2])

RECURSIVE FlatOrder(_, _, _, _, _, _)
\* the orders of the elements of a list from the n-th on, one after the other
FlatOrder(r, a, i, f, items, n) ==
    IF n > Len(items) THEN <<>>
    ELSE Again(r, a, i, f, items[n]).order \o FlatOrder(r, a, i, f, items, n + 1)

C5_Step ==
    (ret'.op \in {"snp_genotypes", "sample_metadata"}) =>
        /\ (ArgOf(ret').t = "list") =>
              /\ ret'.out = "ok" <=>
                    /\ Len(ArgOf(ret').v) > 0
                    /\ \A n \in 1..Len(ArgOf(ret').v) :
                          Again(ret', ag3, io, fs, ArgOf(ret').v[n]).out = "ok"
              /\ ret'.out = "ok" =>
                    ret'.order = FlatOrder(ret', ag3, io, fs, ArgOf(ret').v, 1)
        /\ (ArgOf(ret').t = "str" /\ ret'.out = "ok") =>
              IF ArgOf(ret').v = "v3_wild"
              THEN ret'.order = SelectSeq(fs.manifest["v3"], NotCross)
              ELSE IF ArgOf(ret').v \in Range(ag3.releases)
              THEN ret'.order = fs.manifest[ArgOf(ret').v]
              ELSE ret'.order = <<ArgOf(ret').v>>

\* C5: a list of sample-set arguments resolves to the resolutions of its
\* elements one after the other in input order, repeated elements and release
\* ids included: a single id resolves to itself, a release id to its manifest in
\* manifest order, "v3_wild" to the v3 manifest without "AG1000G-X".
C5_ResolveOrder == [][C5_Step]_vars

\* C5 witness: a release id followed by a sample set of that release, visited twice
C5_Witness ==
    /\ ret.op = "snp_genotypes"
    /\ ret.out = "ok"
    /\ ret.order = <<"SS2", "AG1000G-X", "SS1", "SS1">>

\* the sample id of each column of a genotype array
ColumnSamples(d) == [c \in 1..Len(d) |-> d[c][1][2]]

\* the sample_id column of a metadata table
SampleIds(df) == [j \in 1..Len(df.rows) |-> df.rows[j].sample_id]

C6_Step ==
    (ret'.op = "snp_genotypes" /\ ret'.out = "ok") =>
        /\ (ArgOf(ret').t = "list" /\ Len(ArgOf(ret').v) = 2) =>
              LET n1 == Len(Again(ret', ag3, io, fs, ArgOf(ret').v[1]).val)
                  n2 == Len(Again(ret', ag3, io, fs, ArgOf(ret').v[2]).val)
              IN  /\ Len(ret'.val) = n1 + n2
                  /\ SubSeq(ret'.val, 1, n1) =
                        Again(ret', ag3, io, fs, ArgOf(ret').v[1]).val
                  /\ SubSeq(ret'.val, n1 + 1, n1 + n2) =
                        Again(ret', ag3, io, fs, ArgOf(ret').v[2]).val
        /\ LET md == sample_metadata(ag3, io, fs, {}, ArgOf(ret'), NoSpeciesCalls)
           IN  /\ md.out = "ok"
               /\ md.order = ret'.order
               /\ ColumnSamples(ret'.val) = SampleIds(md.val)

\* C6: the genotypes of [S1, S2] have as many columns as those of S1 and of S2
\* together, the first block being the genotypes of S1 and the rest those of S2;
\* the columns follow the resolved order of the sample sets, so that they are
\* the samples of the rows of sample_metadata for the same argument, in order,
\* when the metadata files can be read.
C6_GenotypesConcat == [][C6_Step]_vars

\* C6 witness: the genotypes of two sample sets, two columns then one
C6_Witness ==
    /\ ret.op = "snp_genotypes"
    /\ ret.out = "ok"
    /\ ret.order = <<"SS1", "SS2">>
    /\ ret.arg[2].t = "list"
    /\ Len(ret.val) = 3

RECURSIVE FlatRows(_, _, _, _, _, _)
\* the rows of the metadata of each sample set from the n-th on, one after the other
FlatRows(r, a, i, f, order, n) ==
    IF n > Len(order) THEN <<>>
    ELSE Again(r, a, i, f, Str(order[n])).val.rows \o FlatRows(r, a, i, f, order, n + 1)

\* the argument is a list, or a name that stands for one
IsMulti(arg) == arg.t = "list" \/ (arg.t = "str" /\ StartsWithV3(arg.v))

C7_Step ==
    (ret'.op = "sample_metadata" /\ ret'.out = "ok" /\ IsMulti(ArgOf(ret'))) =>
        /\ \A n \in 1..Len(ret'.order) :
              Again(ret', ag3, io, fs, Str(ret'.order[n])).out = "ok"
        /\ ret'.val.rows = FlatRows(ret', ag3, io, fs, ret'.order, 1)
        /\ ret'.val.index = [j \in 1..Len(ret'.val.rows) |-> j - 1]
        /\ \A j \in 1..Len(ret'.val.rows) :
              /\ {"sample_set", "release"} \subseteq DOMAIN ret'.val.rows[j]
              /\ ret'.arg[2] # NoSpeciesCalls => "species" \in DOMAIN ret'.val.rows[j]
        /\ (ArgOf(ret').t = "str" /\ ArgOf(ret').v = "v3") =>
              ret'.order = fs.manifest["v3"]

\* C7: the metadata of several sample sets is the metadata of each, in resolved
\* order, one after the other, re-indexed from 0 with no gap, with the columns
\* sample_set and release and, with species calls, species; for release v3 with
\* the manifest [SS1, SS2] it is the metadata of SS1 then that of SS2.
C7_MetadataConcat == [][C7_Step]_vars

\* C7 witness: releases {v3}, manifest [SS1, SS2], sample_metadata("v3")
C7_Witness ==
    /\ ret.op = "sample_metadata"
    /\ ret.out = "ok"
    /\ ret.arg[1].t = "str"
    /\ ret.arg[1].v = "v3"
    /\ ret.arg[2] = DefaultSpeciesCalls
    /\ ag3.releases = <<"v3">>
    /\ fs.manifest["v3"] = <<"SS1", "SS2">>
    /\ ret.order = <<"SS1", "SS2">>
    /\ Len(ret.val.rows) = Len(SamplesOf("SS1")) + Len(SamplesOf("SS2"))
    /\ ret.val.index = <<0, 1, 2>>

-----------------------------------------------------------------------------
(* Properties of the sites and of accessibility *)

\* the number of True values of a boolean array
CountTrue(b) == Cardinality({j \in 1..Len(b) : b[j]})

\* the place in b of its m-th True value
NthTrue(b, m) ==
    CHOOSE j \in 1..Len(b) : b[j] /\ Cardinality({x \in 1..j : b[x]}) = m

\* the filter-pass array of the stored filters for a call's contig and mask
StoredFilter(contig, mask) == fs.filter_pass[mask][contig]

\* C8: is_accessible(contig, mask) is a boolean vector as long as
\* genome_sequence(contig); its entry at coordinate pos (vector[pos-1] from 0)
\* is the filter-pass value of the site at pos, every coordinate that is not a
\* site is false, and it has as many true entries as site_filters(contig, mask)
\* has True values.
C8_Accessible ==
    (ret.op = "is_accessible" /\ ret.out = "ok") =>
        /\ Len(ret.val) = Len(genome_sequence(ag3, io, fs, {}, ret.arg[1]).val)
        /\ \A c \in 1..Len(ret.val) : ret.val[c] \in BOOLEAN
        /\ \A j \in 1..Len(fs.pos[ret.arg[1]]) :
              ret.val[fs.pos[ret.arg[1]][j]] = StoredFilter(ret.arg[1], ret.arg[2])[j]
        /\ \A c \in 1..Len(ret.val) :
              c \notin Range(fs.pos[ret.arg[1]]) => ret.val[c] = FALSE
        /\ CountTrue(ret.val) =
              CountTrue(site_filters(ag3, io, fs, {}, ret.arg[1], ret.arg[2],
                                     "dt_20200416").val)

\* C8 witness: an accessibility vector with a passing site, a failing site and
\* a coordinate that is no site
C8_Witness ==
    /\ ret.op = "is_accessible"
    /\ ret.out = "ok"
    /\ ret.arg[2] = "gamb_colu"
    /\ Len(fs.pos["3R"]) >= 2
    /\ Len(fs.pos["3R"]) < Len(ret.val)
    /\ fs.pos["3R"][1] > 1
    /\ \E j \in 1..Len(fs.pos["3R"]) : StoredFilter("3R", "gamb_colu")[j]
    /\ \E j \in 1..Len(fs.pos["3R"]) : ~StoredFilter("3R", "gamb_colu")[j]
    /\ CountTrue(ret.val) >= 1

\* C9: snp_sites(contig, site_mask=m) with no field, on stored data that can be
\* read, returns POS, REF and ALT, each selected once by the filter-pass array
\* of m: the three have the same length, the number of True values of the
\* filter, and hold the sites that pass in their original order.
C9_MaskedSites ==
    (/\ ret.op = "snp_sites"
     /\ ret.arg[2] = NoField
     /\ ret.arg[3] # NoMask
     /\ ret.arg[1] \in Contigs
     /\ ret.bad = {}) =>
        /\ ret.out = "ok"
        /\ Len(ret.val) = 3
        /\ \A k \in 1..3 :
              /\ Len(ret.val[k]) = CountTrue(StoredFilter(ret.arg[1], ret.arg[3]))
              /\ \A m \in 1..Len(ret.val[k]) :
                    ret.val[k][m] =
                        SiteArray(fs, ret.arg[1], <<"POS", "REF", "ALT">>[k])
                            [NthTrue(StoredFilter(ret.arg[1], ret.arg[3]), m)]

\* C9 witness: a masked call that drops a site and keeps two
C9_Witness ==
    /\ ret.op = "snp_sites"
    /\ ret.out = "ok"
    /\ ret.arg = <<"3R", NoField, "gamb_colu">>
    /\ Len(ret.val[1]) = 2
    /\ Len(ret.val[2]) = 2
    /\ Len(ret.val[3]) = 2
    /\ Len(fs.pos["3R"]) = 3
    /\ ~StoredFilter("3R", "gamb_colu")[2]

-----------------------------------------------------------------------------
(* Properties of the species calls *)

\* the species of a row as the table of the two raw columns gives it
SpeciesByTable(ga, gc) ==
    IF ga = "arabiensis" THEN "arabiensis"
    ELSE IF ga = "intermediate" THEN "intermediate_arabiensis_gambiae"
    ELSE IF ga = "gamb_colu" /\ gc = "gambiae" THEN "gambiae"
    ELSE IF ga = "gamb_colu" /\ gc = "coluzzii" THEN "coluzzii"
    ELSE IF ga = "gamb_colu" /\ gc = "intermediate"
    THEN "intermediate_gambiae_coluzzii"
    ELSE NaN

RowsByTable(rows) ==
    \A j \in 1..Len(rows) :
        rows[j].species = SpeciesByTable(rows[j].species_gambcolu_arabiensis,
                                         rows[j].species_gambiae_coluzzii)

\* C10: in every species-calls table read, returned or cached, the species of
\* each row is arabiensis when species_gambcolu_arabiensis is arabiensis,
\* intermediate_arabiensis_gambiae when it is intermediate, gambiae, coluzzii
\* or intermediate_gambiae_coluzzii when it is gamb_colu and
\* species_gambiae_coluzzii is gambiae, coluzzii or intermediate, and missing
\* for every other combination of the two raw columns.
C10_SpeciesDerivation ==
    /\ \A key \in DOMAIN ag3.cache_species_calls :
          /\ RowsByTable(ag3.cache_species_calls[key].rows)
          /\ Len(ag3.cache_species_calls[key].rows) = Len(fs.species[key[1]])
          /\ \A j \in 1..Len(fs.species[key[1]]) :
                /\ ag3.cache_species_calls[key].rows[j].species_gambcolu_arabiensis
                      = fs.species[key[1]][j].species_gambcolu_arabiensis
                /\ ag3.cache_species_calls[key].rows[j].species_gambiae_coluzzii
                      = fs.species[key[1]][j].species_gambiae_coluzzii
    /\ (ret.op = "_read_species_calls" /\ ret.out = "ok") => RowsByTable(ret.val.rows)

\* C10 witness: a table read with a row arabiensis/coluzzii derived as
\* arabiensis and a row gamb_colu/arabiensis left missing
C10_Witness ==
    /\ ret.op = "_read_species_calls"
    /\ ret.out = "ok"
    /\ Len(ret.val.rows) = 2
    /\ ret.val.rows[1].species_gambcolu_arabiensis = "arabiensis"
    /\ ret.val.rows[1].species_gambiae_coluzzii = "coluzzii"
    /\ ret.val.rows[1].species = "arabiensis"
    /\ ret.val.rows[2].species_gambcolu_arabiensis = "gamb_colu"
    /\ ret.val.rows[2].species_gambiae_coluzzii = "arabiensis"
    /\ ret.val.rows[2].species = NaN

-----------------------------------------------------------------------------
(* Properties of callers sharing one instance *)

\* some caller saw key k absent while another was past its own miss on k and
\* before its store
Interleaved(k) == \E t \in Threads : k \in ret[t].raced

\* thread t has returned from a call on key k
Returned(t, k) == ret[t].pc = "done" /\ ret[t].out = "ok" /\ ret[t].key = k

\* C11: cache population is not exclusive among callers.  Whenever a key has
\* been opened more than once, or two callers hold different handles for it,
\* two calls on that key interleaved between the miss and the store: calls that
\* do not interleave open a key at most once and return one handle.  The state
\* where two interleaved callers both missed, both opened and hold different
\* handles is the witness.
C11_OnlyInterleavedRace ==
    \A k \in RaceKeys :
        /\ Opens(io, k) > 1 => Interleaved(k)
        /\ \A t \in Threads, u \in Threads :
              (Returned(t, k) /\ Returned(u, k) /\ ret[t].val.id # ret[u].val.id)
                  => Interleaved(k)

\* C11 witness: two callers of _open_snp_genotypes("SS1") on an empty cache both
\* missed, both opened the store and returned different handles
C11_Witness ==
    /\ Returned(1, <<"_open_snp_genotypes", "SS1">>)
    /\ Returned(2, <<"_open_snp_genotypes", "SS1">>)
    /\ Opens(io, <<"_open_snp_genotypes", "SS1">>) = 2
    /\ ret[1].val.id # ret[2].val.id
    /\ Interleaved(<<"_open_snp_genotypes", "SS1">>)

====
